---- MODULE Spec2Model ----
\* Model of the chat session core of readmatrix (useChat composable and the
\* chat page that drives it): conversation identity, history restore, the
\* SSE read loop of submit(), and the citation selection state.
\*
\* Strings are sequences of one-character strings, so that a transport chunk
\* can end anywhere inside a line.
EXTENDS Integers, Sequences, FiniteSets, TLC

\* ---------------------------------------------------------------- bounds
\* submit() calls accepted in one behaviour
MaxTurns == 2
\* startNewConversation() requests in flight at the same time
MaxPending == 1
\* cut points the transport may put into one response body (DecodeSpec)
MaxCuts == 2

\* ------------------------------------------------------------- constants
Null == "null"
\* the fixed apology string written by submit()'s catch block
Apology == <<"S", "R", "Y">>
\* the no-information marker phrase looked for by the citations branch
NoInfoMarker == <<"N", "I">>
\* line markers of the read loop
EventPrefix == <<"e", "v", "e", "n", "t", ":", " ">>
DataPrefix == <<"d", "a", "t", "a", ":", " ">>
LF == "\n"
\* event types dispatched by the read loop, and a terminal marker it ignores
MetaEvent == <<"m", "e", "t", "a">>
DeltaEvent == <<"d", "e", "l", "t", "a">>
CitationsEvent == <<"c", "i", "t", "a", "t", "i", "o", "n", "s">>
DoneEvent == <<"d", "o", "n", "e">>

\* ---------------------------------------------------------- string helpers
\* String.prototype.startsWith
StartsWith(s, p) ==
  /\ Len(s) >= Len(p)
  /\ SubSeq(s, 1, Len(p)) = p

\* String.prototype.slice(n)
Slice(s, n) == SubSeq(s, n + 1, Len(s))

\* String.prototype.includes
Includes(s, p) ==
  \E i \in 0..(Len(s) - Len(p)) : SubSeq(s, i + 1, i + Len(p)) = p

\* String.prototype.trim over the blank character " "
RECURSIVE TrimStart(_)
TrimStart(s) ==
  IF s # <<>> /\ Head(s) = " " THEN TrimStart(Tail(s)) ELSE s

RECURSIVE TrimEnd(_)
TrimEnd(s) ==
  IF s # <<>> /\ s[Len(s)] = " " THEN TrimEnd(SubSeq(s, 1, Len(s) - 1)) ELSE s

Trim(s) == TrimEnd(TrimStart(s))

\* String.prototype.split("\n"): the pieces between line feeds, the last one
\* being whatever follows the last line feed (possibly empty)
Split(s) ==
  LET feeds == {i \in 1..Len(s) : s[i] = LF}
      n == Cardinality(feeds)
      \* position of the k-th line feed; 0 before the first, Len(s) + 1 after the last
      feed(k) == IF k = 0 THEN 0
                 ELSE IF k > n THEN Len(s) + 1
                 ELSE CHOOSE i \in feeds : Cardinality({j \in feeds : j < i}) = k - 1
  IN  [k \in 1..(n + 1) |-> SubSeq(s, feed(k - 1) + 1, feed(k) - 1)]

RECURSIVE Flatten(_)
Flatten(ss) == IF ss = <<>> THEN <<>> ELSE Head(ss) \o Flatten(Tail(ss))

\* ------------------------------------------------------------------ values
\* Citation: only the fields the session core reads (id) plus one that tells
\* citations of different origin apart.
Citation(n, origin) == [id |-> n, snippet |-> origin]
\* selectedCitation = null
NoCitation == [id |-> 0, snippet |-> "null"]

\* Message objects. `has` is the set of own properties of the object; a hole
\* of a sparse array (or an index past the end) reads as undefined.
Undefined ==
  [has |-> {}, id |-> <<>>, role |-> "", content |-> <<>>,
   citations |-> <<>>, isClarification |-> FALSE]

IsUndefined(m) == m.has = {}

\* messages.value[i] (i counted from 1)
At(msgs, i) == IF i \in 1..Len(msgs) THEN msgs[i] ELSE Undefined

\* messages.value[i] = m; writing past the end leaves holes in between
SetAt(msgs, i, m) ==
  [k \in 1..(IF i > Len(msgs) THEN i ELSE Len(msgs)) |->
     IF k = i THEN m ELSE At(msgs, k)]

\* { id, role: "user", content } built by submit()
UserMessage(mid, text) ==
  [has |-> {"id", "role", "content"}, id |-> mid, role |-> "user",
   content |-> text, citations |-> <<>>, isClarification |-> FALSE]

\* { id, role: "assistant", content: "", citations: [], isClarification: false }
AssistantMessage(mid) ==
  [has |-> {"id", "role", "content", "citations", "isClarification"},
   id |-> mid, role |-> "assistant", content |-> <<>>,
   citations |-> <<>>, isClarification |-> FALSE]

\* generateId(): the n-th id drawn in a session
GenerateId(n) == <<"g", n>>

\* --------------------------------------------------------------- JSON.parse
\* Payload texts use a compact object syntax: "{" fields "}" with the fields
\*   i<d>  conversation_id "c<d>"      n<t|f>  needs_clarification
\*   c<text>  content (runs to the closing brace)
\* "[" digits "]" is an array of citations, "~" is the literal null.
\* Anything else makes JSON.parse throw.
JsonError == [kind |-> "error", conversation_id |-> Null,
              needs_clarification |-> "absent", hasContent |-> FALSE,
              content |-> <<>>, items |-> <<>>]
JsonNull == [JsonError EXCEPT !.kind = "null"]
JsonObject == [JsonError EXCEPT !.kind = "object"]

RECURSIVE ParseFields(_, _)
ParseFields(s, acc) ==
  IF acc.kind = "error" \/ s = <<>> THEN acc
  ELSE IF Head(s) = "i" /\ Len(s) >= 2 /\ s[2] \in {"1", "2"}
    THEN ParseFields(Slice(s, 2),
           [acc EXCEPT !.conversation_id = IF s[2] = "1" THEN "c1" ELSE "c2"])
  ELSE IF Head(s) = "n" /\ Len(s) >= 2 /\ s[2] \in {"t", "f"}
    THEN ParseFields(Slice(s, 2),
           [acc EXCEPT !.needs_clarification = IF s[2] = "t" THEN "true" ELSE "false"])
  ELSE IF Head(s) = "c"
    THEN [acc EXCEPT !.hasContent = TRUE, !.content = Tail(s)]
  ELSE JsonError

RECURSIVE ParseItems(_)
ParseItems(s) ==
  IF s = <<>> THEN <<>>
  ELSE <<Citation(IF Head(s) = "1" THEN 1 ELSE 2, "sse")>> \o ParseItems(Tail(s))

ParseJSON(s) ==
  IF s = <<"~">> THEN JsonNull
  ELSE IF Len(s) < 2 THEN JsonError
  ELSE IF s[1] = "{" /\ s[Len(s)] = "}"
    THEN ParseFields(SubSeq(s, 2, Len(s) - 1), JsonObject)
  ELSE IF s[1] = "[" /\ s[Len(s)] = "]"
          /\ \A i \in 2..(Len(s) - 1) : s[i] \in {"1", "2"}
    THEN [JsonError EXCEPT !.kind = "array",
                           !.items = ParseItems(SubSeq(s, 2, Len(s) - 1))]
  ELSE JsonError

\* ------------------------------------------------------------ the read loop
\* (variant: the identity is kept in memory only)
SetConversationIdIn_MemoryOnly(st, id) ==
  [st EXCEPT !.conversationId = id]

\* setConversationId(id): the in-memory identity and the persisted slot.
\* persistConversationId removes the slot for a falsy id, writes it otherwise.
SetConversationIdIn(st, id) ==
  [st EXCEPT !.conversationId = id, !.storage = id]

\* The state one iteration of the read loop works on: the locals of submit()
\* (buffer, currentEvent, currentData, isClarification), the refs it writes,
\* the (eventType, payload) pairs it dispatched, and the error it threw.
\* Each log entry also records what the branch read and what it stored.
LogEntry(ev, data, clar, seen, out) ==
  [ev |-> ev, data |-> data, ok |-> TRUE, clar |-> clar, seen |-> seen, out |-> out]

\* the dispatch of (ev, data) threw `what`
Throw(st, ev, data, what) ==
  [st EXCEPT !.thrown = what,
             !.log = Append(@, [LogEntry(ev, data, st.isClarification, <<>>, <<>>)
                                  EXCEPT !.ok = FALSE])]

\* if (currentEvent === "meta") { ... }
MetaBranch(st, data) ==
  LET d == ParseJSON(data)
      s1 == IF d.conversation_id # Null
              THEN SetConversationIdIn(st, d.conversation_id) ELSE st
  IN  IF d.kind = "null" THEN Throw(st, MetaEvent, data, "TypeError")
      ELSE [s1 EXCEPT !.isClarification = (d.needs_clarification = "true"),
                      !.log = Append(@, LogEntry(MetaEvent, data,
                                 d.needs_clarification = "true", <<>>, <<>>))]

\* else if (currentEvent === "delta") { ... }
DeltaBranch(st, idx, data) ==
  LET d == ParseJSON(data)
      currentMessage == At(st.messages, idx)
      fragment == IF d.kind # "null" /\ d.hasContent THEN d.content ELSE <<>>
  IN  IF IsUndefined(currentMessage) \/ d.kind = "null"
        THEN Throw(st, DeltaEvent, data, "TypeError")
      ELSE [st EXCEPT
              !.messages = SetAt(@, idx,
                 [currentMessage EXCEPT
                    !.has = @ \cup {"content", "isClarification"},
                    !.content = @ \o fragment,
                    !.isClarification = st.isClarification]),
              !.log = Append(@, LogEntry(DeltaEvent, data, st.isClarification,
                                         currentMessage.content, <<>>))]

\* (variant: the clarification flag is not consulted)
SuppressCitations_IgnoresClarification(noInfo, isClarification, d) ==
  IF noInfo \/ d.kind # "array" THEN <<>> ELSE d.items

\* noInfo || isClarification || !Array.isArray(data) ? [] : data
SuppressCitations(noInfo, isClarification, d) ==
  IF noInfo \/ isClarification \/ d.kind # "array" THEN <<>> ELSE d.items

\* else if (currentEvent === "citations") { ... }
CitationsBranch(st, idx, data) ==
  LET d == ParseJSON(data)
      currentMessage == At(st.messages, idx)
      noInfo == Includes(currentMessage.content, NoInfoMarker)
      citations == SuppressCitations(noInfo, st.isClarification, d)
  IN  IF IsUndefined(currentMessage)
        THEN Throw(st, CitationsEvent, data, "TypeError")
      ELSE [st EXCEPT
              !.currentCitations = citations,
              !.messages = SetAt(@, idx,
                 [currentMessage EXCEPT
                    !.has = @ \cup {"citations", "isClarification"},
                    !.citations = citations,
                    !.isClarification = st.isClarification]),
              !.log = Append(@, LogEntry(CitationsEvent, data, st.isClarification,
                                         currentMessage.content, citations))]

\* (variant: the pending event type and data survive a dispatch)
Dispatch_KeepsPending(st, idx) ==
  LET ev == st.currentEvent
      data == st.currentData
  IN  IF ParseJSON(data).kind = "error" THEN Throw(st, ev, data, "SyntaxError")
      ELSE IF ev = MetaEvent THEN MetaBranch(st, data)
      ELSE IF ev = DeltaEvent THEN DeltaBranch(st, idx, data)
      ELSE IF ev = CitationsEvent THEN CitationsBranch(st, idx, data)
      ELSE [st EXCEPT !.log = Append(@, LogEntry(ev, data, st.isClarification,
                                                 <<>>, <<>>))]

\* (variant: a payload that does not parse is skipped and the loop goes on)
Dispatch_SkipsBadPayload(st, idx) ==
  LET ev == st.currentEvent
      data == st.currentData
      s1 == IF ParseJSON(data).kind = "error"
              THEN [Throw(st, ev, data, "SyntaxError") EXCEPT !.thrown = Null]
            ELSE IF ev = MetaEvent THEN MetaBranch(st, data)
            ELSE IF ev = DeltaEvent THEN DeltaBranch(st, idx, data)
            ELSE IF ev = CitationsEvent THEN CitationsBranch(st, idx, data)
            ELSE [st EXCEPT !.log = Append(@, LogEntry(ev, data, st.isClarification,
                                                       <<>>, <<>>))]
  IN  IF s1.thrown # Null THEN s1
      ELSE [s1 EXCEPT !.currentEvent = <<>>, !.currentData = <<>>]

\* the body of the data branch once currentEvent and currentData are both set
Dispatch(st, idx) ==
  LET ev == st.currentEvent
      data == st.currentData
      s1 == IF ParseJSON(data).kind = "error" THEN Throw(st, ev, data, "SyntaxError")
            ELSE IF ev = MetaEvent THEN MetaBranch(st, data)
            ELSE IF ev = DeltaEvent THEN DeltaBranch(st, idx, data)
            ELSE IF ev = CitationsEvent THEN CitationsBranch(st, idx, data)
            ELSE [st EXCEPT !.log = Append(@, LogEntry(ev, data, st.isClarification,
                                                       <<>>, <<>>))]
  IN  IF s1.thrown # Null THEN s1
      ELSE [s1 EXCEPT !.currentEvent = <<>>, !.currentData = <<>>]

\* one pass of `for (const line of lines)`
LineStep(st, idx, line) ==
  IF st.thrown # Null THEN st
  ELSE IF StartsWith(line, EventPrefix)
    THEN [st EXCEPT !.currentEvent = Slice(line, 7)]
  ELSE IF StartsWith(line, DataPrefix)
    THEN LET s1 == [st EXCEPT !.currentData = Slice(line, 6)]
         IN  IF s1.currentEvent = <<>> \/ s1.currentData = <<>> THEN s1
             ELSE Dispatch(s1, idx)
  ELSE st

RECURSIVE RunLines(_, _, _)
RunLines(st, idx, lines) ==
  IF lines = <<>> THEN st
  ELSE RunLines(LineStep(st, idx, Head(lines)), idx, Tail(lines))

\* (variant: the text after the last line feed is run as a line as well)
ProcessChunk_RunsTail(st, idx, chunk) ==
  LET pieces == Split(st.buffer \o chunk)
  IN  RunLines([st EXCEPT !.buffer = <<>>,
                          !.currentEvent = <<>>,
                          !.currentData = <<>>],
               idx, pieces)

\* one iteration of `while (true)` after reader.read() returned a chunk:
\* the buffer grows by the chunk, the text after the last line feed is held
\* back, currentEvent and currentData start empty, the complete lines run.
ProcessChunk(st, idx, chunk) ==
  LET pieces == Split(st.buffer \o chunk)
      lines == SubSeq(pieces, 1, Len(pieces) - 1)
  IN  RunLines([st EXCEPT !.buffer = pieces[Len(pieces)],
                          !.currentEvent = <<>>,
                          !.currentData = <<>>],
               idx, lines)

\* ------------------------------------------------------- the remote service
\* One SSE frame as the service writes it: an event line and its data line.
Frame(ev, payload) ==
  EventPrefix \o ev \o <<LF>> \o DataPrefix \o payload \o <<LF>>

\* Response bodies of POST /api/ask (whole streams).
StreamAnswer ==
  Frame(MetaEvent, <<"{", "i", "2", "n", "f", "}">>)
    \o Frame(DeltaEvent, <<"{", "c", "a", "}">>)
    \o Frame(CitationsEvent, <<"[", "1", "2", "]">>)
    \o Frame(DoneEvent, <<"{", "}">>)
StreamDelta == Frame(DeltaEvent, <<"{", "c", "a", "}">>)
StreamClarify ==
  Frame(MetaEvent, <<"{", "n", "t", "}">>)
    \o Frame(CitationsEvent, <<"[", "1", "2", "]">>)
    \o Frame(MetaEvent, <<"{", "i", "2", "}">>)
    \o Frame(CitationsEvent, <<"[", "1", "2", "]">>)
StreamBroken ==
  Frame(CitationsEvent, <<"[", "1", "2", "]">>)
    \o Frame(DeltaEvent, <<"{", "c">>)
    \o Frame(DeltaEvent, <<"{", "c", "a", "}">>)
StreamNoInfo ==
  Frame(CitationsEvent, <<"[", "1", "2", "]">>)
    \o Frame(DeltaEvent, <<"{", "c", "N", "}">>)
    \o Frame(DeltaEvent, <<"{", "c", "I", "}">>)

\* s cut after each position of the increasing sequence `at`
RECURSIVE CutAt(_, _, _)
CutAt(s, at, from) ==
  IF at = <<>> THEN <<SubSeq(s, from, Len(s))>>
  ELSE <<SubSeq(s, from, Head(at))>> \o CutAt(s, Tail(at), Head(at) + 1)

\* The chunkings the transport delivers in the session model: a body in one
\* chunk, cut at a frame boundary (after a frame whose payload does not parse
\* too), or cut between an event line and its data.
AskResponses ==
  { <<StreamAnswer>>,
    CutAt(StreamAnswer, <<2 * Len(StreamDelta)>>, 1),
    CutAt(StreamDelta, <<Len(EventPrefix \o DeltaEvent) + 1>>, 1),
    <<StreamClarify>>,
    <<StreamBroken>>,
    CutAt(StreamBroken,
          <<Len(Frame(CitationsEvent, <<"[", "1", "2", "]">>)) + Len(Frame(DeltaEvent, <<"{", "c">>))>>,
          1),
    <<StreamNoInfo>> }

\* conversation ids the service hands out
NewIds == {"c1", "c2"}
\* answers to POST /api/conversations: an id, a non-success status, or a
\* body without conversation_id
CreateAnswers == NewIds \cup {"status", "missing"}

\* history pages of GET /api/conversations/{id}/messages (the messages field)
HistoryItem(n, role, text, hasCit, cits, hasClar, clar) ==
  [id |-> <<"h", n>>, role |-> role, content |-> text,
   hasCitations |-> hasCit, citations |-> cits,
   hasClarification |-> hasClar, is_clarification |-> clar]

PageCited ==
  << HistoryItem(1, "assistant", <<"a">>, TRUE, <<Citation(1, "h1")>>, FALSE, FALSE),
     HistoryItem(2, "user", <<"q">>, FALSE, <<>>, FALSE, FALSE),
     HistoryItem(3, "assistant", <<"a">>, TRUE,
                 <<Citation(1, "h3"), Citation(2, "h3")>>, TRUE, TRUE) >>
PagePlain ==
  << HistoryItem(1, "user", <<"q">>, TRUE, <<Citation(1, "h1")>>, TRUE, TRUE),
     HistoryItem(2, "assistant", <<"a">>, FALSE, <<>>, FALSE, FALSE) >>
PageEmpty == << >>

Pages == {PageCited, PagePlain, PageEmpty}
\* answers to the history request: a page, 404, or any other failure
HistoryAnswers == {"ok", "404", "failed"}

\* inputs the user types
Inputs == { <<>>, <<" ">>, <<" ", "q">> }

\* ------------------------------------------------------------------- state
VARIABLES
  messages,          \* messages.value
  input,             \* input.value
  isLoading,         \* isLoading.value
  error,             \* error.value (Null or a message)
  currentCitations,  \* currentCitations.value
  selectedCitation,  \* selectedCitation.value (NoCitation for null)
  conversationId,    \* conversationId.value
  storage,           \* localStorage[STORAGE_KEY] (Null when absent)
  turns,             \* the submit() calls accepted so far and where each stands
  creating,          \* startNewConversation() calls awaiting createConversation()
  restore            \* the restoreConversationMessages() call and where it stands

vars == <<messages, input, isLoading, error, currentCitations, selectedCitation,
          conversationId, storage, turns, creating, restore>>

\* the locals of one submit() call
NewTurn(pc, idx) ==
  [pc |-> pc, assistantIndex |-> idx, isClarification |-> FALSE,
   activeConversationId |-> Null, buffer |-> <<>>, chunks |-> <<>>, pos |-> 1, log |-> <<>>,
   failed |-> FALSE, cleanRun |-> TRUE, newConversation |-> "none"]

Open(t) == turns[t].pc # "done"

\* what is left of a call that returned once the next one starts
Returned(ts) == [t \in 1..Len(ts) |->
                   IF ts[t].pc = "done" THEN NewTurn("done", ts[t].assistantIndex)
                   ELSE ts[t]]

\* what a first call of restoreConversationMessages() was answered and left
\* behind, kept only when a second call is to follow
NoOutcome == [answer |-> "none", page |-> <<>>, messages |-> <<>>, storage |-> Null]

Init ==
  /\ messages = <<>>
  /\ input = <<>>
  /\ isLoading = FALSE
  /\ error = Null
  /\ currentCitations = <<>>
  /\ selectedCitation = NoCitation
  /\ conversationId = Null
  /\ storage \in {Null, "c1"}
  /\ turns = <<>>
  /\ creating = 0
  /\ restore = [pc |-> "init", saved |-> Null, runs |-> 0, answer |-> "none",
                first |-> NoOutcome]

Mounted == restore.pc # "init"

\* ------------------------------------------------------------ conversation id
\* (variant: the persisted slot is not written)
SetConversationId_NoPersist(id) ==
  /\ conversationId' = id
  /\ UNCHANGED storage

\* setConversationId(id) on the refs
SetConversationId(id) ==
  /\ conversationId' = id
  /\ storage' = id

\* ---------------------------------------------------------------- submit()
\* (variant: ensureConversation() consults the persisted slot)
HasConversation_FromSlot == storage # Null

\* ensureConversation(): if (conversationId.value) return conversationId.value
HasConversation == conversationId # Null

\* (variant: the loading flag does not gate submission)
SubmitAccepted_Ungated(text) == Trim(text) # <<>>

\* if (!input.value.trim() || isLoading.value) return;   (negated)
SubmitAccepted(text) == Trim(text) # <<>> /\ ~isLoading

\* The synchronous part of submit() with `text` in the input box: both
\* messages are pushed, the flags are set, and ensureConversation() either
\* returns the identity held in memory (the ask request goes out) or starts
\* createConversation(). A refused call returns at once.
SubmitWith(text) ==
  /\ Mounted
  /\ Len(turns) < MaxTurns
  /\ IF ~SubmitAccepted(text)
       THEN /\ input' = text
            /\ UNCHANGED <<messages, isLoading, error, currentCitations, turns>>
       ELSE LET n == Len(turns)
                idx == Len(messages) + 2
            IN  /\ messages' = messages
                      \o << UserMessage(GenerateId(2 * n + 1), Trim(text)),
                            AssistantMessage(GenerateId(2 * n + 2)) >>
                /\ input' = <<>>
                /\ isLoading' = TRUE
                /\ error' = Null
                /\ currentCitations' = <<>>
                /\ turns' = Append(Returned(turns),
                      IF HasConversation
                        THEN [NewTurn("asking", idx)
                                EXCEPT !.activeConversationId = conversationId]
                        ELSE NewTurn("creating", idx))
  /\ UNCHANGED <<selectedCitation, conversationId, storage, creating, restore>>

\* submit() from the input box (Enter or the send button)
Submit == SubmitWith(input)

\* handleExampleClick(example): the empty state offers examples
Example == <<"q">>
HandleExampleClick ==
  /\ Len(messages) = 0
  /\ SubmitWith(Example)

\* (variant: no finalizer, the loading flag stays as it was)
Fail_KeepsLoading(t, st, what) ==
  LET idx == turns[t].assistantIndex
      old == At(st.messages, idx)
  IN  /\ error' = what
      /\ messages' = SetAt(st.messages, idx,
                        [old EXCEPT !.has = @ \cup {"content"}, !.content = Apology])
      /\ UNCHANGED isLoading
      /\ currentCitations' = st.currentCitations
      /\ conversationId' = st.conversationId
      /\ storage' = st.storage
      /\ turns' = [turns EXCEPT ![t].pc = "done", ![t].failed = TRUE,
                                ![t].log = st.log, ![t].buffer = st.buffer,
                                ![t].isClarification = st.isClarification]

\* catch (e) { error = e.message; messages[assistantIndex] = {...old, content: apology} }
\* finally { isLoading = false }, applied to the refs as `st` left them
Fail(t, st, what) ==
  LET idx == turns[t].assistantIndex
      old == At(st.messages, idx)
  IN  /\ error' = what
      /\ messages' = SetAt(st.messages, idx,
                        [old EXCEPT !.has = @ \cup {"content"}, !.content = Apology])
      /\ isLoading' = FALSE
      /\ currentCitations' = st.currentCitations
      /\ conversationId' = st.conversationId
      /\ storage' = st.storage
      /\ turns' = [turns EXCEPT ![t].pc = "done", ![t].failed = TRUE,
                                ![t].log = st.log, ![t].buffer = st.buffer,
                                ![t].isClarification = st.isClarification]

\* the refs and locals as a read-loop state
LoopState(t) ==
  [buffer |-> turns[t].buffer, currentEvent |-> <<>>, currentData |-> <<>>,
   isClarification |-> turns[t].isClarification, messages |-> messages,
   currentCitations |-> currentCitations, conversationId |-> conversationId,
   storage |-> storage, log |-> turns[t].log, thrown |-> Null]

\* createConversation() awaited by ensureConversation() inside submit()
TurnCreateReply(t, ans) ==
  /\ turns[t].pc = "creating"
  /\ IF ans \in NewIds
       THEN /\ SetConversationId(ans)
            /\ turns' = [turns EXCEPT ![t].pc = "asking",
                                      ![t].activeConversationId = ans]
            /\ UNCHANGED <<messages, isLoading, error, currentCitations>>
       ELSE Fail(t, LoopState(t), ans)
  /\ UNCHANGED <<input, selectedCitation, creating, restore>>

\* fetch(`/api/ask`) resolved: a non-success status, no body, a rejected
\* fetch, or a body whose chunks will be read one by one
TurnAskReply(t, failure, body) ==
  /\ turns[t].pc = "asking"
  /\ IF failure = "none"
       THEN /\ turns' = [turns EXCEPT ![t].pc = "reading", ![t].chunks = body]
            /\ UNCHANGED <<messages, isLoading, error, currentCitations,
                           conversationId, storage>>
       ELSE Fail(t, LoopState(t), failure)
  /\ UNCHANGED <<input, selectedCitation, creating, restore>>

AskFailures == {"API error", "No response body"}

\* reader.read() returned the next chunk: one iteration of the while loop
TurnRead(t) ==
  /\ turns[t].pc = "reading"
  /\ turns[t].pos <= Len(turns[t].chunks)
  /\ LET st == ProcessChunk(LoopState(t), turns[t].assistantIndex,
                            turns[t].chunks[turns[t].pos])
     IN  IF st.thrown # Null
           THEN Fail(t, st, st.thrown)
           ELSE /\ messages' = st.messages
                /\ currentCitations' = st.currentCitations
                /\ conversationId' = st.conversationId
                /\ storage' = st.storage
                /\ turns' = [turns EXCEPT ![t].pos = @ + 1,
                                          ![t].buffer = st.buffer,
                                          ![t].isClarification = st.isClarification,
                                          ![t].log = st.log]
                /\ UNCHANGED <<isLoading, error>>
  /\ UNCHANGED <<input, selectedCitation, creating, restore>>

\* reader.read() returned done: break, then finally
TurnReadDone(t) ==
  /\ turns[t].pc = "reading"
  /\ turns[t].pos > Len(turns[t].chunks)
  /\ turns' = [turns EXCEPT ![t].pc = "done"]
  /\ isLoading' = FALSE
  /\ UNCHANGED <<messages, input, error, currentCitations, selectedCitation,
                 conversationId, storage, creating, restore>>

\* reader.read() rejected
TurnReadError(t) ==
  /\ turns[t].pc = "reading"
  /\ Fail(t, LoopState(t), "network")
  /\ UNCHANGED <<input, selectedCitation, creating, restore>>

\* ------------------------------------------------ clear / startNewConversation
\* a replaced timeline is no longer the one an open turn pushed its messages to
Disturb(ts) == [t \in 1..Len(ts) |->
                  IF ts[t].pc # "done" THEN [ts[t] EXCEPT !.cleanRun = FALSE] ELSE ts[t]]

\* startNewConversation() was called while the calls in ts are open: with no
\* earlier createConversation() of the page pending, the next one to resolve
\* belongs to a call made after these turns were submitted
Discard(ts, pending) ==
  [t \in 1..Len(ts) |->
     IF ts[t].pc # "done"
       THEN [ts[t] EXCEPT !.cleanRun = FALSE,
                          !.newConversation = IF pending = 0 THEN "called" ELSE "none"]
       ELSE ts[t]]

\* the last pending createConversation() of startNewConversation() resolved
\* and stored its conversation_id
Created(ts) ==
  [t \in 1..Len(ts) |->
     IF ts[t].pc # "done" /\ ts[t].newConversation = "called"
       THEN [ts[t] EXCEPT !.newConversation = "created"]
       ELSE ts[t]]

Clear ==
  /\ Mounted
  /\ messages' = <<>>
  /\ currentCitations' = <<>>
  /\ selectedCitation' = NoCitation
  /\ error' = Null
  /\ turns' = Disturb(turns)
  /\ UNCHANGED <<input, isLoading, conversationId, storage, creating, restore>>

\* (variant: the identity held before the call is kept)
StartNewConversation_KeepsIdentity ==
  /\ Mounted
  /\ creating < MaxPending
  /\ messages' = <<>>
  /\ currentCitations' = <<>>
  /\ selectedCitation' = NoCitation
  /\ error' = Null
  /\ creating' = creating + 1
  /\ turns' = Discard(turns, creating)
  /\ UNCHANGED <<input, isLoading, restore, conversationId, storage>>

\* clear(); setConversationId(null); then createConversation() is awaited
StartNewConversation ==
  /\ Mounted
  /\ creating < MaxPending
  /\ messages' = <<>>
  /\ currentCitations' = <<>>
  /\ selectedCitation' = NoCitation
  /\ error' = Null
  /\ SetConversationId(Null)
  /\ creating' = creating + 1
  /\ turns' = Discard(turns, creating)
  /\ UNCHANGED <<input, isLoading, restore>>

\* createConversation() of a startNewConversation() call resolved or threw
NewConversationReply(ans) ==
  /\ creating > 0
  /\ creating' = creating - 1
  /\ IF ans \in NewIds
       THEN SetConversationId(ans) /\ UNCHANGED error
       ELSE error' = ans /\ UNCHANGED <<conversationId, storage>>
  /\ turns' = IF ans \in NewIds /\ creating = 1 THEN Created(turns) ELSE turns
  /\ UNCHANGED <<messages, input, isLoading, currentCitations, selectedCitation,
                 restore>>

\* ------------------------------------------- restoreConversationMessages()
\* payload.messages.map((item) => ({ id, role, content,
\*   citations: item.citations || [], isClarification: Boolean(item.is_clarification) }))
MapItem(item) ==
  [has |-> {"id", "role", "content", "citations", "isClarification"},
   id |-> item.id, role |-> item.role, content |-> item.content,
   citations |-> IF item.hasCitations THEN item.citations ELSE <<>>,
   isClarification |-> item.hasClarification /\ item.is_clarification]

MapPage(page) == [i \in 1..Len(page) |-> MapItem(page[i])]

\* (variant: the page is appended to the timeline)
RestoredTimeline_Appends(old, page) == old \o MapPage(page)

\* messages.value = payload.messages.map(...): the page replaces the timeline
RestoredTimeline(old, page) == MapPage(page)

\* (variant: the scan runs oldest to newest)
LastAssistant_Oldest(msgs) ==
  LET hits == {i \in 1..Len(msgs) :
                 msgs[i].role = "assistant" /\ Len(msgs[i].citations) > 0}
  IN  IF hits = {} THEN 0 ELSE CHOOSE i \in hits : \A j \in hits : i <= j

\* [...messages].reverse().find(role === "assistant" && citations?.length):
\* the position of the last such message, 0 when there is none
LastAssistant(msgs) ==
  LET hits == {i \in 1..Len(msgs) :
                 msgs[i].role = "assistant" /\ Len(msgs[i].citations) > 0}
  IN  IF hits = {} THEN 0 ELSE CHOOSE i \in hits : \A j \in hits : j <= i

\* The synchronous start: without a persisted identity the call returns,
\* otherwise the history request goes out for the identity read from the slot.
RestoreStart(limit) ==
  /\ restore.pc \in {"init", "done"}
  /\ restore.runs < limit
  /\ restore' = [pc |-> IF storage = Null THEN "done" ELSE "waiting",
                 saved |-> storage, runs |-> restore.runs + 1, answer |-> "none",
                 first |-> IF limit > 1 /\ restore.runs = 0 /\ storage = Null
                             THEN [NoOutcome EXCEPT !.messages = messages]
                             ELSE restore.first]
  /\ UNCHANGED <<messages, input, isLoading, error, currentCitations,
                 selectedCitation, conversationId, storage, turns, creating>>

\* (variant: any failure drops the identity, as a 404 does)
RestoreReply_FailureDropsIdentity(ans, page, limit) ==
  /\ restore.pc = "waiting"
  /\ CASE ans = "404" ->
            /\ SetConversationId(Null)
            /\ UNCHANGED <<messages, error, currentCitations, selectedCitation, turns>>
       [] ans = "failed" ->
            /\ error' = "restore failed"
            /\ SetConversationId(Null)
            /\ UNCHANGED <<messages, currentCitations, selectedCitation, turns>>
       [] OTHER ->
            LET mapped == MapPage(page)
                last == LastAssistant(mapped)
            IN  /\ SetConversationId(restore.saved)
                /\ messages' = RestoredTimeline(messages, page)
                /\ turns' = Disturb(turns)
                /\ IF last # 0
                     THEN /\ currentCitations' = mapped[last].citations
                          /\ selectedCitation' = mapped[last].citations[1]
                     ELSE UNCHANGED <<currentCitations, selectedCitation>>
                /\ UNCHANGED error
  /\ restore' = [restore EXCEPT !.pc = "done", !.answer = ans,
                                !.first = IF limit > 1 /\ restore.runs = 1
                                            THEN [answer |-> ans, page |-> page,
                                                  messages |-> messages',
                                                  storage |-> storage']
                                            ELSE @]
  /\ UNCHANGED <<input, isLoading, creating>>

\* The history request resolved: 404, any other failure (status, rejected
\* fetch, unreadable body), or a page of the conversation asked for.
RestoreReply(ans, page, limit) ==
  /\ restore.pc = "waiting"
  /\ CASE ans = "404" ->
            /\ SetConversationId(Null)
            /\ UNCHANGED <<messages, error, currentCitations, selectedCitation, turns>>
       [] ans = "failed" ->
            /\ error' = "restore failed"
            /\ UNCHANGED <<messages, currentCitations, selectedCitation,
                           conversationId, storage, turns>>
       [] OTHER ->
            LET mapped == MapPage(page)
                last == LastAssistant(mapped)
            IN  /\ SetConversationId(restore.saved)
                /\ messages' = RestoredTimeline(messages, page)
                /\ turns' = Disturb(turns)
                /\ IF last # 0
                     THEN /\ currentCitations' = mapped[last].citations
                          /\ selectedCitation' = mapped[last].citations[1]
                     ELSE UNCHANGED <<currentCitations, selectedCitation>>
                /\ UNCHANGED error
  /\ restore' = [restore EXCEPT !.pc = "done", !.answer = ans,
                                !.first = IF limit > 1 /\ restore.runs = 1
                                            THEN [answer |-> ans, page |-> page,
                                                  messages |-> messages',
                                                  storage |-> storage']
                                            ELSE @]
  /\ UNCHANGED <<input, isLoading, creating>>

\* ------------------------------------------------------- citation selection
\* selectCitation(citation)
SelectCitation(citation) == selectedCitation' = citation

\* marker numbers a rendered message can emit (handleClick: citationId > 0)
Markers == {1, 2, 3}

\* (variant: a marker without a match drops the selection)
HandleCitationClick_ClearsOnMiss(k) ==
  /\ Mounted
  /\ LET found == {i \in 1..Len(currentCitations) : currentCitations[i].id = k}
     IN  IF found # {}
           THEN SelectCitation(currentCitations[CHOOSE i \in found : \A j \in found : i <= j])
           ELSE selectedCitation' = NoCitation
  /\ UNCHANGED <<messages, input, isLoading, error, currentCitations,
                 conversationId, storage, turns, creating, restore>>

\* handleCitationClick(citationId): a marker [k] or a citation badge clicked
HandleCitationClick(k) ==
  /\ Mounted
  /\ LET found == {i \in 1..Len(currentCitations) : currentCitations[i].id = k}
     IN  IF found # {}
           THEN SelectCitation(currentCitations[CHOOSE i \in found : \A j \in found : i <= j])
           ELSE UNCHANGED selectedCitation
  /\ UNCHANGED <<messages, input, isLoading, error, currentCitations,
                 conversationId, storage, turns, creating, restore>>

\* (variant: the last citation of the message is selected)
HandleMessageClick_SelectsLast(i) ==
  /\ Mounted
  /\ i \in 1..Len(messages)
  /\ ~IsUndefined(messages[i])
  /\ IF "citations" \in messages[i].has /\ Len(messages[i].citations) > 0
       THEN /\ currentCitations' = messages[i].citations
            /\ SelectCitation(messages[i].citations[Len(messages[i].citations)])
       ELSE /\ currentCitations' = <<>>
            /\ UNCHANGED selectedCitation
  /\ UNCHANGED <<messages, input, isLoading, error, conversationId, storage,
                 turns, creating, restore>>

\* handleMessageClick(message) on a rendered message of the timeline
HandleMessageClick(i) ==
  /\ Mounted
  /\ i \in 1..Len(messages)
  /\ ~IsUndefined(messages[i])
  /\ IF "citations" \in messages[i].has /\ Len(messages[i].citations) > 0
       THEN /\ currentCitations' = messages[i].citations
            /\ SelectCitation(messages[i].citations[1])
       ELSE /\ currentCitations' = <<>>
            /\ UNCHANGED selectedCitation
  /\ UNCHANGED <<messages, input, isLoading, error, conversationId, storage,
                 turns, creating, restore>>

\* CitationPanel @close="currentCitations = []" (the panel shows only while
\* currentCitations is not empty)
ClosePanel ==
  /\ Len(currentCitations) > 0
  /\ currentCitations' = <<>>
  /\ UNCHANGED <<messages, input, isLoading, error, selectedCitation,
                 conversationId, storage, turns, creating, restore>>

\* CitationPanel @select="selectCitation": an entry of the panel's list
PanelSelect(i) ==
  /\ i \in 1..Len(currentCitations)
  /\ SelectCitation(currentCitations[i])
  /\ UNCHANGED <<messages, input, isLoading, error, currentCitations,
                 conversationId, storage, turns, creating, restore>>

\* the user edits the input box (v-model); ChatInput disables it while loading
SetInput(text) ==
  /\ Mounted
  /\ ~isLoading
  /\ input # text
  /\ input' = text
  /\ UNCHANGED <<messages, isLoading, error, currentCitations, selectedCitation,
                 conversationId, storage, turns, creating, restore>>

\* ------------------------------------------------------------ specifications
TurnStep ==
  \E t \in 1..Len(turns) :
    \/ \E ans \in CreateAnswers : TurnCreateReply(t, ans)
    \/ \E body \in AskResponses : TurnAskReply(t, "none", body)
    \/ \E failure \in AskFailures : TurnAskReply(t, failure, <<>>)
    \/ TurnRead(t)
    \/ TurnReadDone(t)
    \/ TurnReadError(t)

Next ==
  \/ RestoreStart(1)
  \/ \E ans \in HistoryAnswers :
       \E page \in (IF ans = "ok" THEN Pages ELSE {<<>>}) : RestoreReply(ans, page, 1)
  \/ \E text \in Inputs : SetInput(text)
  \/ Submit
  \/ HandleExampleClick
  \/ TurnStep
  \/ Clear
  \/ StartNewConversation
  \/ \E ans \in CreateAnswers : NewConversationReply(ans)
  \/ \E k \in Markers : HandleCitationClick(k)
  \/ \E i \in 1..Len(messages) : HandleMessageClick(i)
  \/ ClosePanel
  \/ \E i \in 1..Len(currentCitations) : PanelSelect(i)

Spec == Init /\ [][Next]_vars

\* A turn on its own, its response body cut anywhere ----------------------
\* increasing sequences of at most n positions in lo..hi
RECURSIVE Cuts(_, _, _)
Cuts(lo, hi, n) ==
  IF n = 0 THEN { <<>> }
  ELSE { <<>> } \cup UNION { { <<i>> \o r : r \in Cuts(i + 1, hi, n - 1) } : i \in lo..hi }

\* every way the transport can deliver s in at most MaxCuts + 1 chunks
Chunkings(s) == { CutAt(s, at, 1) : at \in Cuts(1, Len(s) - 1, MaxCuts) }

\* bodies served in DecodeSpec: frames in the orders the claims distinguish,
\* a payload that does not parse followed by a frame that does, a body whose
\* last line has no line feed, and lines that are no frame
StreamTwoDeltas ==
  Frame(DeltaEvent, <<"{", "c", "a", "}">>) \o Frame(DeltaEvent, <<"{", "c", "b", "}">>)
StreamCiteFirst ==
  Frame(CitationsEvent, <<"[", "1", "]">>) \o Frame(DeltaEvent, <<"{", "c", "N", "I", "}">>)
StreamBadThenGood ==
  Frame(DeltaEvent, <<"{", "c">>) \o Frame(DeltaEvent, <<"{", "c", "a", "}">>)
StreamUnterminated ==
  Frame(DeltaEvent, <<"{", "c", "a", "}">>)
    \o EventPrefix \o DeltaEvent \o <<LF>> \o DataPrefix \o <<"{", "c", "b", "}">>
StreamStray ==
  DataPrefix \o <<"{", "c", "a", "}">> \o <<LF>>
    \o <<"x", LF>>
    \o Frame(DeltaEvent, <<"{", "c", "b", "}">>)
    \o DataPrefix \o <<"{", "c", "a", "}">> \o <<LF>>
\* a terminal marker whose payload is not JSON, between two deltas
StreamDoneMarker ==
  Frame(DeltaEvent, <<"{", "c", "a", "}">>)
    \o Frame(DoneEvent, <<"D">>)
    \o Frame(DeltaEvent, <<"{", "c", "b", "}">>)

\* two event lines in a row, then a data line without data, then a payload
StreamPending ==
  EventPrefix \o MetaEvent \o <<LF>>
    \o EventPrefix \o DeltaEvent \o <<LF>>
    \o DataPrefix \o <<LF>>
    \o DataPrefix \o <<"{", "c", "a", "}">> \o <<LF>>

DecodeStreams ==
  { StreamTwoDeltas, StreamCiteFirst, StreamBadThenGood, StreamUnterminated, StreamStray,
    StreamDoneMarker, StreamPending }

DecodeInit == Init /\ storage = Null

DecodeNext ==
  \/ RestoreStart(1)
  \/ turns = <<>> /\ HandleExampleClick
  \/ \E t \in 1..Len(turns) :
       \/ \E ans \in NewIds : TurnCreateReply(t, ans)
       \/ /\ turns[t].pc = "asking"
          /\ \E s \in DecodeStreams : \E body \in Chunkings(s) : TurnAskReply(t, "none", body)
       \/ TurnRead(t)
       \/ TurnReadDone(t)

DecodeSpec == DecodeInit /\ [][DecodeNext]_vars

\* restoreConversationMessages() called a second time -----------------------
\* The first call runs as in the session (the user may act while its request
\* is in flight); once it has returned the second call follows with nothing
\* in between, and the service answers it as it answered the first.
RestoreTwiceNext ==
  \/ RestoreStart(2)
  \/ \E ans \in HistoryAnswers :
       \E page \in (IF ans = "ok" THEN Pages ELSE {<<>>}) :
         /\ restore.runs = 2 => (ans = restore.first.answer /\ page = restore.first.page)
         /\ RestoreReply(ans, page, 2)
  \/ /\ restore.runs = 1 /\ restore.pc = "waiting"
     /\ \/ \E text \in Inputs : SetInput(text)
        \/ Submit
        \/ HandleExampleClick
        \/ TurnStep
        \/ Clear
        \/ StartNewConversation
        \/ \E ans \in CreateAnswers : NewConversationReply(ans)

RestoreTwiceSpec == Init /\ [][RestoreTwiceNext]_vars

\* The session under a transport that always answers ------------------------
\* Every awaited network step of an open turn (the create request, the ask
\* request, each reader.read()) eventually resolves or rejects.
\* The citation handlers are left out: they write selectedCitation and
\* currentCitations only, which no step of a turn reads.
FairNext ==
  \/ RestoreStart(1)
  \/ \E ans \in HistoryAnswers :
       \E page \in (IF ans = "ok" THEN Pages ELSE {<<>>}) : RestoreReply(ans, page, 1)
  \/ \E text \in Inputs : SetInput(text)
  \/ Submit
  \/ HandleExampleClick
  \/ TurnStep
  \/ Clear
  \/ StartNewConversation
  \/ \E ans \in CreateAnswers : NewConversationReply(ans)

\* fetch() of the create request or of the ask request settled, or
\* reader.read() returned done or rejected
TurnReply ==
  \E t \in 1..Len(turns) :
    \/ \E ans \in CreateAnswers : TurnCreateReply(t, ans)
    \/ \E body \in AskResponses : TurnAskReply(t, "none", body)
    \/ \E failure \in AskFailures : TurnAskReply(t, failure, <<>>)
    \/ TurnReadDone(t)
    \/ TurnReadError(t)

\* reader.read() returned a chunk
ReadStep == \E t \in 1..Len(turns) : TurnRead(t)

\* a reader.read() is awaited and a chunk is left: ReadStep is enabled
ReadPending ==
  \E t \in 1..Len(turns) :
    turns[t].pc = "reading" /\ turns[t].pos <= Len(turns[t].chunks)

\* WF_vars(ReadStep), written out with its enabling condition
ReadFairness == []<>(~ReadPending) \/ []<><<ReadStep>>_vars

FairSpec == Init /\ [][FairNext]_vars /\ WF_vars(TurnReply) /\ ReadFairness

\* ====================================================================
\* Properties
\* ====================================================================
\* the (eventType, payload) pairs of a dispatch log
Pairs(log) == [i \in 1..Len(log) |-> <<log[i].ev, log[i].data>>]

\* the read loop on the first turn of a fresh session
FreshLoop ==
  [buffer |-> <<>>, currentEvent |-> <<>>, currentData |-> <<>>,
   isClarification |-> FALSE,
   messages |-> << UserMessage(GenerateId(1), Example), AssistantMessage(GenerateId(2)) >>,
   currentCitations |-> <<>>, conversationId |-> Null, storage |-> Null,
   log |-> <<>>, thrown |-> Null]

\* the whole body arriving as a single chunk
WholeRun(s) == ProcessChunk(FreshLoop, 2, s)

\* newline-terminated 'event: T' / 'data: P' line pairs
WellFormed(s) ==
  LET pieces == Split(s)
      n == Len(pieces) - 1
  IN  /\ pieces[Len(pieces)] = <<>>
      /\ n % 2 = 0
      /\ \A i \in 1..n :
           IF i % 2 = 1 THEN StartsWith(pieces[i], EventPrefix) /\ Len(pieces[i]) > 7
           ELSE StartsWith(pieces[i], DataPrefix) /\ Len(pieces[i]) > 6

Body(t) == Flatten(turns[t].chunks)

Ended(t) == turns[t].pc = "done" /\ turns[t].chunks # <<>>

\* C1 (P1, buffer integrity): for a well-formed stream, whatever the cut into
\* chunks, the (eventType, payload) pairs dispatched chunk by chunk equal the
\* pairs dispatched when the whole stream arrives as one chunk.
C1_BufferIntegrity ==
  \A t \in 1..Len(turns) :
    (Ended(t) /\ WellFormed(Body(t)))
      => Pairs(turns[t].log) = Pairs(WholeRun(Body(t)).log)

\* f1 + f2 + ... + fn for the delta events a stream carries
RECURSIVE DeltaFragments(_)
DeltaFragments(pairs) ==
  IF pairs = <<>> THEN <<>>
  ELSE LET d == ParseJSON(Head(pairs)[2])
       IN  (IF Head(pairs)[1] = DeltaEvent /\ d.kind \notin {"error", "null"} /\ d.hasContent
              THEN d.content ELSE <<>>)
           \o DeltaFragments(Tail(pairs))

\* C2 (P2, append-only content): a turn that ends without failure leaves in
\* its assistant message the concatenation of the fragments of the delta
\* events its stream carries, whatever the distribution over chunks.
C2_ContentIsConcatenation ==
  \A t \in 1..Len(turns) :
    (Ended(t) /\ ~turns[t].failed /\ WellFormed(Body(t))
       /\ WholeRun(Body(t)).thrown = Null)
      => At(messages, turns[t].assistantIndex).content
           = DeltaFragments(Pairs(WholeRun(Body(t)).log))

\* the last citations event of a log that was processed (0 when there is none)
LastCitations(log) ==
  LET hits == {i \in 1..Len(log) : log[i].ev = CitationsEvent /\ log[i].ok}
  IN  IF hits = {} THEN 0 ELSE CHOOSE i \in hits : \A j \in hits : j <= i

\* the rule of P3 on a payload, a clarification flag and a content
CitationRule(d, clar, content) ==
  IF d.kind = "array" /\ ~clar /\ ~Includes(content, NoInfoMarker) THEN d.items ELSE <<>>

\* C3 as stated (P3, citation suppression): when a turn that did not fail
\* ends, whatever the order of its events, its assistant message carries the
\* citations payload iff the payload is a sequence, the turn's clarification
\* flag is false and the assembled content lacks the marker; else no citation.
C3_SuppressionAtTurnEnd ==
  [][ \A t \in 1..Len(turns) :
        ( /\ Len(turns') = Len(turns)
          /\ turns[t].pc = "reading" /\ turns'[t].pc = "done"
          /\ ~turns'[t].failed /\ turns'[t].cleanRun
          /\ LastCitations(turns'[t].log) # 0 )
        => LET e == turns'[t].log[LastCitations(turns'[t].log)]
               m == At(messages', turns'[t].assistantIndex)
           IN  m.citations = CitationRule(ParseJSON(e.data), turns'[t].isClarification,
                                          m.content) ]_vars

\* C3 as amended: the decision is taken when the citations event is
\* processed. The message at the turn's index and currentCitations then
\* receive the payload iff the payload is a sequence, the clarification flag
\* latched so far is false and the content that message holds at that moment
\* lacks the marker; otherwise both receive the empty list.
C3_SuppressionWhenProcessed ==
  [][ \A t \in 1..Len(turns) :
        (Len(turns') = Len(turns) /\ Len(turns'[t].log) > Len(turns[t].log))
        => LET old == Len(turns[t].log)
               log == turns'[t].log
               e == log[Len(log)]
           IN  /\ \A i \in (old + 1)..Len(log) :
                    (log[i].ev = CitationsEvent /\ log[i].ok)
                      => log[i].out = CitationRule(ParseJSON(log[i].data),
                                                   log[i].clar, log[i].seen)
               /\ (log[old + 1].ev = CitationsEvent /\ log[old + 1].ok)
                    => /\ log[old + 1].seen = At(messages, turns[t].assistantIndex).content
                       /\ log[old + 1].clar = turns[t].isClarification
               /\ (e.ev = CitationsEvent /\ e.ok)
                    => /\ At(messages', turns[t].assistantIndex).citations = e.out
                       /\ currentCitations' = e.out ]_vars

\* a turn ended without failure, its citations attached before the content
\* came to contain the marker
C3_Witness ==
  \E t \in 1..Len(turns) :
    /\ turns[t].pc = "done" /\ ~turns[t].failed /\ turns[t].cleanRun
    /\ LastCitations(turns[t].log) # 0
    /\ turns[t].log[LastCitations(turns[t].log)].out # <<>>
    /\ Includes(At(messages, turns[t].assistantIndex).content, NoInfoMarker)
    /\ At(messages, turns[t].assistantIndex).citations # <<>>

\* C4: at most one turn is open at any time, and isLoading is true whenever
\* a turn is between its submission and its termination (so a submit()
\* issued meanwhile is refused and no two turns' events interleave).
C4_OneOpenTurn ==
  /\ [](Cardinality({t \in 1..Len(turns) : Open(t)}) <= 1)
  /\ []((\E t \in 1..Len(turns) : Open(t)) => isLoading)
  /\ [][ isLoading => \A t \in 1..Len(turns') :
                         turns'[t].pc # "done" => (t <= Len(turns) /\ Open(t)) ]_vars

\* a turn is open while the input box holds text a submit() would send
C4_Witness ==
  /\ \E t \in 1..Len(turns) : Open(t)
  /\ Trim(input) # <<>>
  /\ Len(turns) < MaxTurns

\* createConversation() calls awaiting POST /api/conversations
CreatesInFlight ==
  creating + Cardinality({t \in 1..Len(turns) : turns[t].pc = "creating"})

\* C5: two create-conversation requests are never in flight at the same time.
C5_OneCreateInFlight == CreatesInFlight <= 1

\* C6: when a turn fails its assistant message ends with the apology string
\* and an empty citation list and error is set, also when a citations event
\* of the turn was processed before the failure.
C6_FailureLeavesNoCitations ==
  [][ \A t \in 1..Len(turns) :
        ( /\ Len(turns') = Len(turns)
          /\ turns[t].pc # "done" /\ turns'[t].pc = "done"
          /\ turns'[t].failed /\ turns'[t].cleanRun )
        => LET m == At(messages', turns[t].assistantIndex)
           IN  /\ m.content = Apology
               /\ m.citations = <<>>
               /\ error' # Null ]_vars

\* C7: every turn that is started eventually terminates with isLoading
\* false, on the success path and on every failure path, when every network
\* step of the turn eventually resolves or rejects; from then on a submit()
\* with non-blank input is accepted.
C7_TurnTerminates ==
  /\ (\E t \in 1..Len(turns) : Open(t))
       ~> ((\A t \in 1..Len(turns) : ~Open(t)) /\ ~isLoading)
  /\ []((\A t \in 1..Len(turns) : ~Open(t)) => SubmitAccepted(Example))

\* a turn failed, another one ended well, and the flag is down
C7_Witness ==
  /\ Len(turns) = 2
  /\ turns[1].pc = "done" /\ turns[2].pc = "done"
  /\ turns[2].failed /\ turns[2].log # <<>>
  /\ ~isLoading

\* C8 as stated (P5, 404 recovery): once restoreConversationMessages, run
\* with a persisted identity, has handled a 404 answer, the persisted slot is
\* empty, conversationId is null, the timeline is empty and error is null.
C8_NotFoundLeavesEmpty ==
  [][ (restore.pc = "waiting" /\ restore'.pc = "done" /\ restore'.answer = "404")
        => /\ storage' = Null
           /\ conversationId' = Null
           /\ messages' = <<>>
           /\ error' = Null ]_vars

\* C8 as amended: once restoreConversationMessages, run with a persisted
\* identity, has handled a 404 answer, the persisted slot is empty and
\* conversationId is null; the timeline and error are as they were just
\* before the answer was handled (the restore neither empties the timeline
\* nor sets or clears error).
C8_NotFoundClearsIdentity ==
  [][ (restore.pc = "waiting" /\ restore'.pc = "done" /\ restore'.answer = "404")
        => /\ restore.saved # Null
           /\ storage' = Null
           /\ conversationId' = Null
           /\ messages' = messages
           /\ error' = error ]_vars

\* a 404 answer was handled in a session whose timeline is not empty
C8_Witness ==
  /\ restore.pc = "done" /\ restore.answer = "404"
  /\ storage = Null /\ conversationId = Null
  /\ messages # <<>>

\* C9 (P4, restore idempotence): restoreConversationMessages run twice in a
\* row, nothing else in between and both history requests answered alike,
\* leaves after the second run the timeline and the persisted identity the
\* first run left; for the success, 404 and other-failure answers.
C9_RestoreIdempotent ==
  (restore.runs = 2 /\ restore.pc = "done")
    => /\ messages = restore.first.messages
       /\ storage = restore.first.storage

\* both runs were answered with a page of history
C9_Witness ==
  /\ restore.runs = 2 /\ restore.pc = "done"
  /\ restore.first.answer = "ok" /\ restore.answer = "ok"
  /\ messages # <<>>

\* C10: selectedCitation is null or an element of currentCitations.
C10_SelectionWithinCurrent ==
  \/ selectedCitation = NoCitation
  \/ \E i \in 1..Len(currentCitations) : currentCitations[i] = selectedCitation

\* C11 (P6, selection scoping): a click on citation marker k (k > 0) sets
\* selectedCitation to the element of currentCitations whose id is k when
\* there is one, and otherwise changes nothing at all; no error is raised
\* when there is no match.
C11_SelectionScoping ==
  [][ \A k \in Markers :
        HandleCitationClick(k)
          => LET found == {i \in 1..Len(currentCitations) : currentCitations[i].id = k}
             IN  /\ k > 0
                 /\ found # {} => /\ selectedCitation'.id = k
                                  /\ \E i \in found : selectedCitation' = currentCitations[i]
                 /\ found = {} => selectedCitation' = selectedCitation
                 /\ error' = error
                 /\ UNCHANGED <<messages, input, isLoading, currentCitations,
                                conversationId, storage, turns, creating, restore>> ]_vars

\* a citation is selected while the list in view has no entry for marker 3
\* and one for marker 2, which is the selected one
C11_Witness ==
  /\ Len(currentCitations) = 2
  /\ selectedCitation = currentCitations[2]
  /\ selectedCitation.id = 2
  /\ \A i \in 1..Len(currentCitations) : currentCitations[i].id # 3

\* the message with identity mid is the assistant message pushed by a turn
\* that is still open
IsOpenAssistant(mid) ==
  \E t \in 1..Len(turns) : Open(t) /\ mid = GenerateId(2 * t)

\* s is an initial segment of r
IsPrefix(s, r) == Len(s) <= Len(r) /\ SubSeq(r, 1, Len(s)) = s

\* C12: the content of a message that is not the open assistant message of
\* the turn in progress never changes, and the content of the open assistant
\* message changes only by appending delta fragments or by the failure
\* overwrite; in every interleaving with clear, startNewConversation and
\* restoreConversationMessages.
C12_ContentFrozen ==
  [][ \A i \in 1..Len(messages) : \A j \in 1..Len(messages') :
        (messages[i].id # <<>> /\ messages'[j].id = messages[i].id)
          => IF IsOpenAssistant(messages[i].id)
               THEN \/ IsPrefix(messages[i].content, messages'[j].content)
                    \/ messages'[j].content = Apology
               ELSE messages'[j].content = messages[i].content ]_vars

\* C13: every message of the timeline whose role is user has no citations
\* (absent or empty) and no clarification flag set (absent or false), whether
\* it was created by submit or loaded by restoreConversationMessages.
C13_UserMessagesPlain ==
  \A i \in 1..Len(messages) :
    messages[i].role = "user"
      => messages[i].citations = <<>> /\ ~messages[i].isClarification

\* C14: the persisted slot changes only together with the in-memory identity
\* and to the same value (setConversationId is the only writer); whenever
\* conversationId is not null the slot holds exactly that value; and
\* setConversationId(null) leaves the identity null and the slot empty.
C14_SlotFollowsIdentity ==
  /\ [](conversationId # Null => storage = conversationId)
  /\ [][ /\ storage' # storage => storage' = conversationId'
         /\ conversationId' # conversationId => storage' = conversationId' ]_vars

\* the session was mounted with identity c1 in the slot and now holds c2 in
\* memory and in the slot
C14_Witness ==
  /\ restore.saved = "c1"
  /\ conversationId = "c2"
  /\ storage = "c2"

\* C15: ensureConversation issues a create request iff conversationId is
\* null when it is called. With an identity in memory the call returns it
\* and changes neither the identity nor the slot; with none (also when the
\* slot still holds one) a create request goes out, and its answer's
\* identity is stored in memory and in the slot and returned.
C15_EnsureConversation ==
  [][ /\ Len(turns') = Len(turns) + 1
        => LET new == turns'[Len(turns')]
           IN  IF conversationId # Null
                 THEN /\ new.pc = "asking"
                      /\ new.activeConversationId = conversationId
                      /\ CreatesInFlight' = CreatesInFlight
                      /\ UNCHANGED <<conversationId, storage>>
                 ELSE /\ new.pc = "creating"
                      /\ CreatesInFlight' = CreatesInFlight + 1
                      /\ UNCHANGED <<conversationId, storage>>
      /\ \A t \in 1..Len(turns) :
           (Len(turns') = Len(turns) /\ turns[t].pc = "creating" /\ turns'[t].pc = "asking")
             => /\ conversationId' \in NewIds
                /\ storage' = conversationId'
                /\ turns'[t].activeConversationId = conversationId' ]_vars

\* the restore failed and left c1 in the slot with no identity in memory;
\* the turn's ensureConversation created c2, which is now held everywhere
C15_Witness ==
  /\ restore.answer = "failed" /\ restore.saved = "c1"
  /\ creating = 0
  /\ \E t \in 1..Len(turns) :
       /\ turns[t].pc = "asking"
       /\ turns[t].activeConversationId = "c2"
  /\ conversationId = "c2" /\ storage = "c2"

\* C16 as stated: once the create request of startNewConversation has failed
\* (non-success status or no conversation_id), conversationId is null, the
\* slot is empty, error is non-null, and the timeline, currentCitations and
\* selectedCitation are as the call cleared them.
C16_FailedNewConversationLeavesCleared ==
  [][ \A ans \in CreateAnswers \ NewIds :
        NewConversationReply(ans)
          => /\ conversationId' = Null /\ storage' = Null
             /\ error' # Null
             /\ messages' = <<>>
             /\ currentCitations' = <<>>
             /\ selectedCitation' = NoCitation ]_vars

\* C16 as amended: the call of startNewConversation empties the timeline,
\* currentCitations, selectedCitation, error, the identity and the slot
\* before its create request goes out; when that request fails, error is set
\* to a non-null message and the identity, the slot, the timeline,
\* currentCitations and selectedCitation stay exactly as they were just
\* before the failure was handled (the identity held before the call is not
\* restored).
C16_FailedNewConversationSetsErrorOnly ==
  [][ /\ creating' = creating + 1
        => /\ messages' = <<>> /\ currentCitations' = <<>>
           /\ selectedCitation' = NoCitation /\ error' = Null
           /\ conversationId' = Null /\ storage' = Null
      /\ \A ans \in CreateAnswers \ NewIds :
           NewConversationReply(ans)
             => /\ error' # Null
                /\ UNCHANGED <<messages, currentCitations, selectedCitation,
                               conversationId, storage, isLoading, input>> ]_vars

\* a session mounted with c1 in the slot whose new conversation failed to be
\* created: nothing in memory, nothing in the slot, the error shown
C16_Witness ==
  /\ restore.saved = "c1" /\ restore.pc = "done"
  /\ creating = 0 /\ turns = <<>>
  /\ error \in CreateAnswers \ NewIds
  /\ conversationId = Null /\ storage = Null
  /\ messages = <<>>

\* the clarification indicator a meta payload carries: "true", "false", or
\* "absent"
Indicator(data) == ParseJSON(data).needs_clarification

\* the flag latched for entry j of a dispatch log: the indicator of the last
\* meta event before j that carried one, false when there is none
Latched(log, j) ==
  LET metas == {i \in 1..(j - 1) :
                  log[i].ev = MetaEvent /\ log[i].ok /\ Indicator(log[i].data) # "absent"}
  IN  IF metas = {} THEN FALSE
      ELSE Indicator(log[CHOOSE i \in metas : \A k \in metas : k <= i].data) = "true"

\* C17 (clarification latch): once a meta event of a turn has carried a
\* clarification indicator, that boolean applies to every later delta and
\* citations event of the turn; a later meta event without an indicator does
\* not reset it, so after needs_clarification = true later citations events
\* are suppressed and later deltas stamp isClarification = true.
C17_ClarificationLatch ==
  \A t \in 1..Len(turns) : \A j \in 1..Len(turns[t].log) :
    LET e == turns[t].log[j]
    IN  (e.ok /\ e.ev \in {DeltaEvent, CitationsEvent})
          => /\ e.clar = Latched(turns[t].log, j)
             /\ (Latched(turns[t].log, j) /\ e.ev = CitationsEvent) => e.out = <<>>

\* C18: an event whose type is none of meta, delta, citations is ignored
\* without error for every payload: processing it leaves the timeline,
\* currentCitations, selectedCitation, conversationId and error unchanged and
\* the turn goes on with the following events.
C18_UnknownEventsIgnored ==
  [][ \A t \in 1..Len(turns) :
        ( /\ Len(turns') = Len(turns)
          /\ Len(turns'[t].log) > Len(turns[t].log)
          /\ \A i \in (Len(turns[t].log) + 1)..Len(turns'[t].log) :
               turns'[t].log[i].ev \notin {MetaEvent, DeltaEvent, CitationsEvent} )
        => /\ \A i \in (Len(turns[t].log) + 1)..Len(turns'[t].log) : turns'[t].log[i].ok
           /\ ~turns'[t].failed
           /\ turns'[t].pc = "reading"
           /\ UNCHANGED <<messages, currentCitations, selectedCitation,
                          conversationId, error>> ]_vars

CitedAssistants(page) ==
  {i \in 1..Len(page) :
     page[i].role = "assistant" /\ page[i].hasCitations /\ Len(page[i].citations) > 0}

\* C20: after a successful restoreConversationMessages the timeline is the
\* fetched page mapped message by message (a missing citation list becomes
\* empty, the clarification flag becomes a boolean); when the page has an
\* assistant message with at least one citation, currentCitations is the
\* list of the last such message and selectedCitation its first citation;
\* otherwise both are unchanged.
C20_RestoreMapsPage ==
  [][ \A page \in Pages :
        RestoreReply("ok", page, 1)
          => /\ Len(messages') = Len(page)
             /\ \A i \in 1..Len(page) :
                  /\ messages'[i].id = page[i].id
                  /\ messages'[i].role = page[i].role
                  /\ messages'[i].content = page[i].content
                  /\ messages'[i].citations =
                       (IF page[i].hasCitations THEN page[i].citations ELSE <<>>)
                  /\ messages'[i].isClarification =
                       (page[i].hasClarification /\ page[i].is_clarification)
                  /\ messages'[i].has = {"id", "role", "content", "citations", "isClarification"}
             /\ IF CitedAssistants(page) # {}
                  THEN LET last == CHOOSE i \in CitedAssistants(page) :
                                     \A j \in CitedAssistants(page) : j <= i
                       IN  /\ currentCitations' = page[last].citations
                           /\ selectedCitation' = page[last].citations[1]
                  ELSE UNCHANGED <<currentCitations, selectedCitation>> ]_vars

\* the page with two cited assistant messages was restored: the list in view
\* is the one of the later message, its first citation is selected
C20_Witness ==
  /\ restore.pc = "done" /\ restore.answer = "ok"
  /\ turns = <<>>
  /\ Len(messages) = 3
  /\ messages[1].citations = <<Citation(1, "h1")>>
  /\ currentCitations = messages[3].citations
  /\ Len(currentCitations) = 2
  /\ selectedCitation = currentCitations[1]

\* C21: handleMessageClick(message) on a message with a non-empty citation
\* list makes currentCitations that list and selectedCitation its first
\* element; on a message without citations (none or an empty list) it makes
\* currentCitations empty; either way the timeline, conversationId,
\* isLoading and error are unchanged.
C21_MessageClick ==
  [][ \A i \in 1..Len(messages) :
        HandleMessageClick(i)
          => /\ IF Len(messages[i].citations) > 0
                  THEN /\ currentCitations' = messages[i].citations
                       /\ selectedCitation' = messages[i].citations[1]
                  ELSE currentCitations' = <<>>
             /\ UNCHANGED <<messages, conversationId, isLoading, error>> ]_vars

\* after the restore focused the last cited message of the page, a click on
\* the first message brought its one citation into view and selected it
C21_Witness ==
  /\ restore.answer = "ok"
  /\ Len(messages) = 3
  /\ Len(messages[3].citations) = 2
  /\ currentCitations = messages[1].citations
  /\ currentCitations = <<Citation(1, "h1")>>
  /\ selectedCitation = Citation(1, "h1")

\* the entries of a log from position lo on that were processed and satisfy
\* the test, as positions
Processed(log, lo, ev) ==
  {i \in lo..Len(log) : log[i].ok /\ log[i].ev = ev}

\* the largest element of a non-empty set of positions
Latest(S) == CHOOSE i \in S : \A j \in S : j <= i

\* C22: a payload that fails to parse on one event aborts the read loop of
\* the turn. No event after the offending one is applied, in the same chunk
\* or in later ones; what the events before it did, other than to the
\* content, is kept; and the turn ends on the failure path: the content is
\* the apology, error is set and isLoading is false.
C22_ParseFailureAborts ==
  [][ \A t \in 1..Len(turns) :
        /\ ( /\ Len(turns') = Len(turns)
             /\ \E i \in (Len(turns[t].log) + 1)..Len(turns'[t].log) :
                  ~turns'[t].log[i].ok /\ ParseJSON(turns'[t].log[i].data).kind = "error" )
           => LET log == turns'[t].log
                  old == Len(turns[t].log)
                  idx == turns[t].assistantIndex
                  cits == Processed(log, old + 1, CitationsEvent)
                  ids == {i \in Processed(log, old + 1, MetaEvent) :
                            ParseJSON(log[i].data).conversation_id # Null}
              IN  /\ ~log[Len(log)].ok
                  /\ \A i \in 1..(Len(log) - 1) : log[i].ok
                  /\ turns'[t].pc = "done" /\ turns'[t].failed
                  /\ At(messages', idx).content = Apology
                  /\ error' = "SyntaxError"
                  /\ ~isLoading'
                  /\ At(messages', idx).citations =
                       (IF cits # {} THEN log[Latest(cits)].out
                        ELSE At(messages, idx).citations)
                  /\ currentCitations' =
                       (IF cits # {} THEN log[Latest(cits)].out ELSE currentCitations)
                  /\ conversationId' =
                       (IF ids # {} THEN ParseJSON(log[Latest(ids)].data).conversation_id
                        ELSE conversationId)
                  /\ storage' = (IF ids # {} THEN conversationId' ELSE storage)
        /\ ( /\ Len(turns') = Len(turns)
             /\ turns[t].pc = "done" )
           => /\ turns'[t].pc = "done"
              /\ Len(turns'[t].log) <= Len(turns[t].log) ]_vars

\* the turn failed on the second frame of its first chunk: the citations of
\* the first frame are kept next to the apology, the second chunk is unread
C22_Witness ==
  \E t \in 1..Len(turns) :
    /\ turns[t].pc = "done" /\ turns[t].failed /\ turns[t].cleanRun
    /\ Len(turns[t].chunks) = 2 /\ turns[t].pos = 1
    /\ Len(turns[t].log) = 2
    /\ turns[t].log[1].ev = CitationsEvent /\ turns[t].log[1].out # <<>>
    /\ ~turns[t].log[2].ok
    /\ error = "SyntaxError" /\ ~isLoading
    /\ At(messages, turns[t].assistantIndex).content = Apology
    /\ At(messages, turns[t].assistantIndex).citations = turns[t].log[1].out

\* the text of a body after its last line feed
Unterminated(s) == Split(s)[Len(Split(s))]

\* the number of data lines of a body that end with a line feed
CompleteDataLines(s) ==
  Cardinality({i \in 1..(Len(Split(s)) - 1) : StartsWith(Split(s)[i], DataPrefix)})

\* C23: the text after the last newline received so far is never parsed as
\* a line, and at end-of-stream what remains in the buffer is discarded: a
\* stream whose final data line has no newline ends the turn without
\* dispatching that event and without raising an error.
C23_TrailingBufferDiscarded ==
  /\ [](\A t \in 1..Len(turns) : \A i \in 1..Len(turns[t].buffer) : turns[t].buffer[i] # LF)
  /\ [](\A t \in 1..Len(turns) :
          (Ended(t) /\ ~turns[t].failed)
            => /\ turns[t].buffer = Unterminated(Body(t))
               /\ Len(turns[t].log) <= CompleteDataLines(Body(t)))
  /\ [][ \A t \in 1..Len(turns) :
           ( /\ Len(turns') = Len(turns)
             /\ turns[t].pc = "reading" /\ turns'[t].pc = "done" /\ ~turns'[t].failed )
           => /\ turns'[t].log = turns[t].log
              /\ UNCHANGED <<messages, currentCitations, selectedCitation,
                             conversationId, storage, error>>
              /\ ~isLoading' ]_vars

\* the body ended in a data line without a newline: the turn is over without
\* failure, the line is still in the buffer, only the first event was dispatched
C23_Witness ==
  \E t \in 1..Len(turns) :
    /\ Ended(t) /\ ~turns[t].failed
    /\ Body(t) = StreamUnterminated
    /\ turns[t].buffer = DataPrefix \o <<"{", "c", "b", "}">>
    /\ Len(turns[t].log) = 1
    /\ error = Null /\ ~isLoading
    /\ At(messages, turns[t].assistantIndex).content = <<"a">>

\* The (eventType, payload) pairs one batch of complete lines is to dispatch,
\* `pending` being the event type of the last event line not yet consumed:
\* an event line sets it, a data line with a pending type and a non-empty
\* data pairs them and clears it, every other line is passed over.
RECURSIVE BatchPairs(_, _)
BatchPairs(lines, pending) ==
  IF lines = <<>> THEN <<>>
  ELSE IF StartsWith(Head(lines), EventPrefix)
    THEN BatchPairs(Tail(lines), Slice(Head(lines), 7))
  ELSE IF /\ StartsWith(Head(lines), DataPrefix)
          /\ pending # <<>>
          /\ Slice(Head(lines), 6) # <<>>
    THEN << <<pending, Slice(Head(lines), 6)>> >> \o BatchPairs(Tail(lines), <<>>)
  ELSE BatchPairs(Tail(lines), pending)

\* C24: within one batch of complete lines an event is dispatched only at a
\* data line for which a pending event type and a non-empty data are both
\* present; it pairs the data with the most recent event line not yet
\* consumed and clears both pending fields. A data line without a pending
\* type, a line matching neither marker, and a second data line after a
\* dispatch without a new event line dispatch nothing. (A dispatch that
\* throws ends the batch.)
C24_DispatchPairing ==
  [][ \A t \in 1..Len(turns) :
        TurnRead(t)
          => LET pieces == Split(turns[t].buffer \o turns[t].chunks[turns[t].pos])
                 expected == BatchPairs(SubSeq(pieces, 1, Len(pieces) - 1), <<>>)
                 all == Pairs(turns'[t].log)
                 new == SubSeq(all, Len(turns[t].log) + 1, Len(all))
             IN  /\ Len(new) <= Len(expected)
                 /\ new = SubSeq(expected, 1, Len(new))
                 /\ ~turns'[t].failed => new = expected ]_vars

\* the body with a data line before any event line, a line that is no
\* frame, one frame, and a second data line after it was read in one chunk:
\* only the frame was dispatched
C24_Witness ==
  \E t \in 1..Len(turns) :
    /\ turns[t].chunks = <<StreamStray>>
    /\ turns[t].pos = 2
    /\ Pairs(turns[t].log) = << <<DeltaEvent, <<"{", "c", "b", "}">> >> >>
    /\ ~turns[t].failed

\* a is b with some of its elements left out, the order kept
RECURSIVE IsSubsequence(_, _)
IsSubsequence(a, b) ==
  IF a = <<>> THEN TRUE
  ELSE IF b = <<>> THEN FALSE
  ELSE IF Head(a) = Head(b) THEN IsSubsequence(Tail(a), Tail(b))
  ELSE IsSubsequence(a, Tail(b))

\* C25: for every stream and every cut into chunks, the events dispatched
\* chunk by chunk form an in-order subsequence of the events dispatched when
\* the whole stream is one chunk: chunking never duplicates or reorders an
\* event and never produces a pair the whole-stream run does not produce.
C25_ChunkedIsSubsequence ==
  \A t \in 1..Len(turns) :
    Ended(t) => IsSubsequence(Pairs(turns[t].log), Pairs(WholeRun(Body(t)).log))

\* C26: in every reachable state every position of the message timeline holds
\* a well-formed message: it has an id, a role that is user or assistant, and
\* a content; the timeline has no hole and no entry without role.
C26_TimelineWellFormed ==
  \A i \in 1..Len(messages) :
    /\ ~IsUndefined(messages[i])
    /\ {"id", "role", "content"} \subseteq messages[i].has
    /\ messages[i].role \in {"user", "assistant"}

\* C27: once a startNewConversation() called while a turn was open has stored
\* its fresh identity, no step of that turn's read loop (its meta events
\* included) changes the in-memory conversationId or the persisted slot.
C27_StaleMetaKeepsIdentity ==
  [][ \A t \in 1..Len(turns) :
        TurnRead(t) /\ turns[t].newConversation = "created"
          => conversationId' = conversationId /\ storage' = storage ]_vars

\* C28: in every reachable state currentCitations is empty or is the citation
\* list of some message of the timeline.
C28_CurrentCitationsInTimeline ==
  \/ currentCitations = <<>>
  \/ \E i \in 1..Len(messages) : messages[i].citations = currentCitations

====
